---- MODULE Spec2Model ----
(***************************************************************************)
(* A model of the succinctx gnark SDK:                                     *)
(*   - ethereum/ssz/ssz.go: SSZ Merkle proofs (RestoreMerkleRoot, its      *)
(*     circuit-variable twin, VerifyProof, HashTreeRoot);                  *)
(*   - gnarkx/succinct/circuit.go: the CircuitFunction contract and the    *)
(*     build / export / import / prove pipeline.                           *)
(* Bytes are integers 0..255, a digest is a sequence of DigestLen bytes.   *)
(* A wire without a value under the witness holds Unassigned.              *)
(***************************************************************************)
EXTENDS Integers, Sequences, FiniteSets, TLC

\* ------------------------------------------------------------------ bounds
MaxProofLen == 2     \* longest Merkle proof
MaxGIndex == 8       \* gindex values are drawn from -1..MaxGIndex
MaxLeaves == 4       \* longest leaves slice handed to HashTreeRoot
MaxCalls == 2        \* HashTreeRoot calls on one slice
MaxSetup == 1        \* key generations in one process
MaxProve == 2        \* Prove calls in one process
MaxPipelineProve == 1  \* Prove calls in one process that also exports and imports

\* ------------------------------------------------------- program constants
DigestLen == 32
TruncBits == 253
HashMod == 32749
Unassigned == 0 - 1

\* ------------------------------------------------------------ Go integers
\* Go's / and % on int truncate toward zero.
GoQuo(a, b) == IF a >= 0 THEN a \div b ELSE 0 - ((0 - a) \div b)

GoRem(a, b) == IF a >= 0 THEN a % b ELSE 0 - ((0 - a) % b)

RECURSIVE Pow2(_)
Pow2(n) == IF n <= 0 THEN 1 ELSE 2 * Pow2(n - 1)

\* a & b on two's-complement ints, for a >= 0 and b >= -1.
RECURSIVE BitAnd(_, _)
BitAnd(a, b) ==
    IF a = 0 \/ b = 0 THEN 0
    ELSE IF b = 0 - 1 THEN a
    ELSE (a % 2) * (b % 2) + 2 * BitAnd(a \div 2, b \div 2)

\* ------------------------------------------------------------- the hash
\* The sha256 gadget is an external collaborator: a deterministic function
\* from a byte string to DigestLen bytes, sensitive to the order of its
\* input.  A hash over a wire without a value has no value.
\* The digest of bs[lo..hi]: a position-weighted sum, halving the range.
RECURSIVE Mix(_, _, _)
Mix(bs, lo, hi) ==
    IF lo > hi THEN 0
    ELSE IF lo = hi THEN ((bs[lo] + 1) * (7 * lo * lo + 13 * lo + 1)) % HashMod
    ELSE LET mid == (lo + hi) \div 2
         IN  (Mix(bs, lo, mid) + Mix(bs, mid + 1, hi)) % HashMod

HasValue(bs) == \A k \in 1..Len(bs) : bs[k] # Unassigned

NoDigest == [j \in 1..DigestLen |-> Unassigned]

Hash(bs) ==
    IF ~HasValue(bs) THEN NoDigest
    ELSE LET m == (Mix(bs, 1, Len(bs)) + Len(bs)) % HashMod
             m2 == (m * m + m) % HashMod
         IN  [j \in 1..DigestLen |-> ((m2 + j) * (2 * j + 1) + (m \div 128)) % 256]

SampleDigest(k) == [j \in 1..DigestLen |-> (k * 16 + j * (k + 1)) % 256]

\* The digests offered as leaves and siblings.
Digests == {SampleDigest(0), SampleDigest(1)}

RECURSIVE SeqsUpTo(_, _)
SeqsUpTo(S, n) ==
    IF n = 0 THEN {<<>>}
    ELSE LET shorter == SeqsUpTo(S, n - 1)
         IN  shorter \cup {Append(s, x) : s \in {t \in shorter : Len(t) = n - 1}, x \in S}

\* ------------------------------------------------------------- variables
VARIABLES
    \* ssz.go, Merkle proofs
    leaf, proof, gindexArg, root,      \* the arguments
    op, pc,                            \* function running, and where it is
    hash, i, gindex, gindexBits,       \* locals of the Restore loops
    restoredRoot,                      \* local of VerifyProof*
    asserts,                           \* equality constraints added so far
    nbHash,                            \* sha256.Hash gadgets added so far
    retConst, retVar,                  \* digests returned (<<>>: not yet)
    \* ssz.go, HashTreeRoot
    leaves,                            \* the caller's slice, reduced in place
    nbLeavesArg, nbLeaves,             \* the argument and the local
    entry,                             \* the slice as it was at the call
    retHTR,                            \* digest returned (<<>>: none)
    calls,                             \* HashTreeRoot calls made
    returned,                          \* the calls that returned: slice, count, root
    \* circuit.go
    circuit,                           \* which embedded Circuit the function wraps
    fn,                                \* the CircuitFunction: public wires and the
                                       \* embedded circuit's wires, as assigned
    lastInput,                         \* inputBytes of the last SetWitness
    tampered,                          \* a wire was changed after SetWitness
    build,                             \* the CircuitBuild the caller holds
    files,                             \* the build directory
    ret,                               \* what the last call returned
    nbSetup,                           \* key generations so far
    hintRegs,                          \* solver.RegisterHint calls so far
    \* main
    flags,                             \* the command line: paths given, modes selected
    mainPc,                            \* where main is ("none": not started)
    logged,                            \* the calls main made, and what it logged
    exitCode                           \* exit status, once mainPc is "exited"

proofVars == <<leaf, proof, gindexArg, root, hash, gindex, gindexBits,
               restoredRoot, asserts, retConst, retVar>>

htrVars == <<leaves, nbLeavesArg, nbLeaves, entry, retHTR, calls, returned>>

fnVars == <<circuit, fn, lastInput, tampered, build, files, ret, nbSetup, hintRegs>>

mainVars == <<flags, mainPc, logged, exitCode>>

vars == <<op, pc, i, nbHash, proofVars, htrVars, fnVars, mainVars>>

\* ------------------------------------------------------- circuit helpers
\* api.ToBinaryLE(v, n): n boolean wires constrained to recompose to v.
\* No bit assignment exists when v does not fit in n bits.
ToBinaryLE(v, n) ==
    IF v >= 0 /\ v < Pow2(n) THEN [k \in 1..n |-> (v \div Pow2(k - 1)) % 2]
    ELSE [k \in 1..n |-> Unassigned]

RECURSIVE FromBinaryLE(_)
FromBinaryLE(bits) ==
    IF Len(bits) = 0 THEN 0
    ELSE IF ~HasValue(bits) THEN Unassigned
    ELSE bits[1] + 2 * FromBinaryLE(Tail(bits))

\* api.SelectBytes32(bit, a, b): a when bit is 1, b when bit is 0.
SelectBytes32(bit, a, b) ==
    IF bit = 1 THEN a ELSE IF bit = 0 THEN b ELSE NoDigest

\* An equality constraint <<lhs, rhs>> holds under the witness when both
\* sides have the same value.
Holds(c) == c[1] # Unassigned /\ c[1] = c[2]

Satisfied(cs) == \A k \in 1..Len(cs) : Holds(cs[k])

\* ------------------------------------------------- ssz.go: Merkle proofs
\* A faulty level: the parity test inverted.
RestoreMerkleRootLevelSwapped(h, sibling, g) ==
    IF GoRem(g, 2) = 0 THEN Hash(sibling \o h) ELSE Hash(h \o sibling)

\* One level of RestoreMerkleRoot: odd gindex, sibling then self.
RestoreMerkleRootLevel(h, sibling, g) ==
    IF GoRem(g, 2) = 1 THEN Hash(sibling \o h) ELSE Hash(h \o sibling)

\* A faulty level: the two candidates handed to the selector in the wrong order.
RestoreVariableLevelSwapped(h, sibling, bit) ==
    LET hash1 == Hash(sibling \o h)
        hash2 == Hash(h \o sibling)
    IN  SelectBytes32(bit, hash2, hash1)

\* One level of RestoreMerkleRootWithGIndexVariable: both hashes, then select.
RestoreVariableLevel(h, sibling, bit) ==
    LET hash1 == Hash(sibling \o h)
        hash2 == Hash(h \o sibling)
    IN  SelectBytes32(bit, hash1, hash2)

\* A faulty loop: the last byte is not compared.
ByteAssertionsShort(r, restored) == [k \in 1..(DigestLen - 1) |-> <<r[k], restored[k]>>]

\* The 32 per-byte assertions of VerifyProof and VerifyProofWithGIndexVariable.
ByteAssertions(r, restored) == [k \in 1..DigestLen |-> <<r[k], restored[k]>>]

\* The root an honest prover holds for leaf, proof and gindex: level k takes
\* bit k of the gindex, least significant first.
GBit(g, k) == (g \div Pow2(k)) % 2

RECURSIVE ReferenceRoot(_, _, _, _)
ReferenceRoot(lf, p, g, n) ==
    IF n = 0 THEN lf
    ELSE LET acc == ReferenceRoot(lf, p, g, n - 1)
         IN  IF GBit(g, n - 1) = 1 THEN Hash(p[n] \o acc) ELSE Hash(acc \o p[n])

FlipByte(d, k) == [d EXCEPT ![k] = (d[k] + 1) % 256]

\* Byte positions at which a presented root may differ from the honest one:
\* both ends of the digest and the middle.
FlipPositions == {1, DigestLen \div 2, DigestLen}

\* Roots a caller may present: the honest one, the honest one with one byte
\* changed, and an unrelated digest.
Roots ==
    LET honest == ReferenceRoot(leaf, proof, IF gindexArg < 0 THEN 0 ELSE gindexArg, Len(proof))
    IN  {honest} \cup {FlipByte(honest, k) : k \in FlipPositions} \cup {SampleDigest(2)}

\* -------------------------------------------------- ssz.go: HashTreeRoot
\* if nbLeaves&(nbLeaves-1) != 0 { panic("nbLeaves must be a power of 2") }
HashTreeRootRejects(n) == BitAnd(n, n - 1) # 0

\* A faulty pair: the entries next to the one written, not the doubled index.
HashTreeRootPairAdjacent(ls, k) == Hash(ls[k + 1] \o ls[k + 2])

\* leaves[i] = sha256.Hash(api, append(leaves[i*2][:], leaves[i*2+1][:]...)),
\* with Go's 0-based i: positions 2i+1 and 2i+2 of the sequence.
HashTreeRootPair(ls, k) == Hash(ls[2 * k + 1] \o ls[2 * k + 2])

\* ------------------------------------------------------------ circuit.go
\* A variable without a value (vars.NewVariable()).
Nil == <<Unassigned>>

\* big.Int.SetBytes: the big-endian magnitude, leading zero bytes dropped.
RECURSIVE SetBytes(_)
SetBytes(bs) ==
    IF Len(bs) > 0 /\ bs[1] = 0 THEN SetBytes(Tail(bs)) ELSE bs

\* big.Int.FillBytes into a buffer of n bytes: left padded with zeros.
FillBytes(x, n) == [k \in 1..n |-> IF k <= n - Len(x) THEN 0 ELSE x[k - (n - Len(x))]]

\* The low nbBits bits of a big-endian DigestLen-byte number.
MaskBits(h, nbBits) ==
    [k \in 1..DigestLen |->
        LET keep == nbBits - 8 * (DigestLen - k)
        IN  IF keep <= 0 THEN 0 ELSE IF keep >= 8 THEN h[k] ELSE h[k] % Pow2(keep)]

\* sha256utils.HashAndTruncate: sha256(bytes) && ((1 << nbBits) - 1), a big.Int.
HashAndTruncate(bs, nbBits) ==
    IF ~HasValue(bs) THEN Nil ELSE SetBytes(MaskBits(Hash(bs), nbBits))

\* sha256.HashAndTruncate (the gadget): the same value, computed in circuit.
GadgetHashAndTruncate(wires, nbBits) == HashAndTruncate(wires, nbBits)

RECURSIVE Sum(_)
Sum(bs) == IF Len(bs) = 0 THEN 0 ELSE bs[1] + Sum(Tail(bs))

\* The embedded circuits offered: implementations of the Circuit interface.
\*   copy          output = input
\*   sumOfWires    output = one byte, the sum of the input wires
\*   evenOnly      copy, and Define asserts that the first input byte is even
\*   defineError   copy, and Define returns an error
\*   definePanic   copy, and Define panics
\*   lazyWitness   copy, with a secret wire SetWitness assigns only for a
\*                 non-zero first input byte
\* Each has InputLen input byte wires.
InputLen == 2

Circuits == {"copy", "sumOfWires", "evenOnly", "defineError", "definePanic", "lazyWitness"}

InputBytes == [1..InputLen -> {0, 1}]

OutputLen(c) == IF c = "sumOfWires" THEN 1 ELSE InputLen

\* func NewCircuitFunction
NewCircuitFunction(c) ==
    [InputHash |-> Nil,
     OutputHash |-> Nil,
     inputBytes |-> [k \in 1..InputLen |-> Unassigned],
     outputBytes |-> [k \in 1..OutputLen(c) |-> Unassigned],
     secret |-> Unassigned]

\* Circuit.SetWitness of the embedded circuit.
CircuitSetWitness(c, f, inputBytes) ==
    IF c = "sumOfWires"
    THEN [f EXCEPT !.outputBytes = IF HasValue(f.inputBytes)
                                   THEN <<Sum(f.inputBytes) % 256>>
                                   ELSE <<Unassigned>>,
                   !.secret = 0]
    ELSE IF c = "lazyWitness"
    THEN [f EXCEPT !.outputBytes = inputBytes,
                   !.secret = IF inputBytes[1] = 0 THEN f.secret ELSE inputBytes[1]]
    ELSE [f EXCEPT !.outputBytes = inputBytes, !.secret = 0]

\* Circuit.Define of the embedded circuit: the constraints it adds, and
\* whether it returns an error or panics.
CircuitDefine(c) ==
    [err |-> c = "defineError",
     panic |-> c = "definePanic",
     constraints |->
        IF c = "sumOfWires" THEN <<"sum">>
        ELSE IF c = "evenOnly" THEN <<"copy", "even">>
        ELSE IF c = "lazyWitness" THEN <<"copy", "secret">>
        ELSE IF c = "copy" THEN <<"copy">>
        ELSE <<>>]

\* A faulty SetWitness: the output hash is taken before the embedded circuit
\* has set its outputs.
SetWitnessEarlyOutputHash(c, f, inputBytes) ==
    LET f1 == [f EXCEPT !.inputBytes = inputBytes]
        f2 == CircuitSetWitness(c, f1, inputBytes)
        f3 == [f2 EXCEPT !.InputHash = HashAndTruncate(inputBytes, TruncBits)]
    IN  [f3 EXCEPT !.OutputHash = HashAndTruncate(f1.outputBytes, TruncBits)]

\* func (f *CircuitFunction) SetWitness
SetWitness(c, f, inputBytes) ==
    LET f1 == [f EXCEPT !.inputBytes = inputBytes]
        f2 == CircuitSetWitness(c, f1, inputBytes)
        inputHash == HashAndTruncate(inputBytes, TruncBits)
        f3 == [f2 EXCEPT !.InputHash = inputHash]
        outputBytesValues == f3.outputBytes
        outputHash == HashAndTruncate(outputBytesValues, TruncBits)
    IN  [f3 EXCEPT !.OutputHash = outputHash]

\* A faulty Define: the output commitment is not constrained.
DefineNoOutputHash(c) ==
    LET e == CircuitDefine(c)
    IN  [err |-> FALSE,
         panic |-> e.panic,
         constraints |-> IF e.panic THEN e.constraints
                         ELSE e.constraints \o <<"inputHash">>]

\* func (f *CircuitFunction) Define: the embedded Define's result is dropped,
\* the two hash assertions are added, nil is returned.
Define(c) ==
    LET e == CircuitDefine(c)
    IN  [err |-> FALSE,
         panic |-> e.panic,
         constraints |-> IF e.panic THEN e.constraints
                         ELSE e.constraints \o <<"inputHash", "outputHash">>]

\* Whether one constraint holds under the values assigned to f.
ConstraintHolds(tag, f) ==
    IF tag = "copy" THEN HasValue(f.inputBytes) /\ f.outputBytes = f.inputBytes
    ELSE IF tag = "sum" THEN HasValue(f.inputBytes) /\ f.outputBytes = <<Sum(f.inputBytes) % 256>>
    ELSE IF tag = "even" THEN HasValue(f.inputBytes) /\ f.inputBytes[1] % 2 = 0
    ELSE IF tag = "secret" THEN f.secret = f.inputBytes[1]
    ELSE IF tag = "inputHash"
    THEN f.InputHash # Nil /\ f.InputHash = GadgetHashAndTruncate(f.inputBytes, TruncBits)
    ELSE IF tag = "outputHash"
    THEN f.OutputHash # Nil /\ f.OutputHash = GadgetHashAndTruncate(f.outputBytes, TruncBits)
    ELSE FALSE

ConstraintsHold(cs, f) == \A k \in 1..Len(cs) : ConstraintHolds(cs[k], f)

\* Artifacts: a constraint system, or a key generated from one.
NoArtifact == [role |-> "none", circuit |-> "none", constraints |-> <<>>, seed |-> 0]

Artifact(role, cs, seed) ==
    [role |-> role, circuit |-> cs.circuit, constraints |-> cs.constraints, seed |-> seed]

NoBuild == [pk |-> NoArtifact, vk |-> NoArtifact, r1cs |-> NoArtifact]

NoProof == <<>>

Returned(err, b, prf) == [err |-> err, build |-> b, proof |-> prf]

\* frontend.Compile: runs Define; an error it returns, or a panic in it, is a
\* compilation error.
Compile(c) ==
    LET d == Define(c)
    IN  IF d.err \/ d.panic
        THEN [err |-> "compile", r1cs |-> NoArtifact]
        ELSE [err |-> "", r1cs |-> [role |-> "r1cs", circuit |-> c,
                                    constraints |-> d.constraints, seed |-> 0]]

\* A faulty Build: after a failed setup the constraint system is still returned.
BuildKeepsR1CS(c, setupOk, seed) ==
    LET compiled == Compile(c)
    IN  IF compiled.err # "" THEN Returned("compile", NoBuild, NoProof)
        ELSE IF ~setupOk
        THEN Returned("setup", [NoBuild EXCEPT !.r1cs = compiled.r1cs], NoProof)
        ELSE Returned("", [pk |-> Artifact("pk", compiled.r1cs, seed),
                           vk |-> Artifact("vk", compiled.r1cs, seed),
                           r1cs |-> compiled.r1cs], NoProof)

\* func (circuit *CircuitFunction) Build
Build(c, setupOk, seed) ==
    LET compiled == Compile(c)
    IN  IF compiled.err # "" THEN Returned("compile", NoBuild, NoProof)
        ELSE IF ~setupOk THEN Returned("setup", NoBuild, NoProof)
        ELSE Returned("", [pk |-> Artifact("pk", compiled.r1cs, seed),
                           vk |-> Artifact("vk", compiled.r1cs, seed),
                           r1cs |-> compiled.r1cs], NoProof)

\* A file of the build directory: absent, or holding an artifact written in
\* full or cut short.
NoFile == [state |-> "absent", data |-> NoArtifact]

\* One file after Export, which fails at step failAt (0: nowhere).  The file
\* is created at step create and written at step create + 1; os.Create
\* truncates, so a failed write leaves a file cut short.
Exported(old, create, data, failAt) ==
    IF failAt # 0 /\ failAt <= create THEN old
    ELSE IF failAt = create + 1 THEN [state |-> "partial", data |-> NoArtifact]
    ELSE [state |-> "complete", data |-> data]

\* func (build *CircuitBuild) Export: 1 MkdirAll, 2-3 r1cs.bin, 4-5 pkey.bin,
\* 6-7 vkey.bin, 8-9 FunctionVerifier.sol.  Writing a verifying key that was
\* never loaded stops at step 7.
ExportFails(b, failAt) ==
    IF b.vk = NoArtifact /\ (failAt = 0 \/ failAt > 7) THEN 7 ELSE failAt

Export(b, old, failAt) ==
    LET at == ExportFails(b, failAt)
    IN  [r1cs |-> Exported(old.r1cs, 2, b.r1cs, at),
         pkey |-> Exported(old.pkey, 4, b.pk, at),
         vkey |-> Exported(old.vkey, 6, b.vk, at),
         sol |-> Exported(old.sol, 8, [b.vk EXCEPT !.role = "sol"], at)]

\* A faulty import: the constraint system file is opened but never read.
ImportSkipsR1CS(fs, failAt) ==
    IF fs.pkey.state = "absent" \/ failAt = 1
    THEN Returned("failed to open file", NoBuild, NoProof)
    ELSE IF fs.pkey.state = "partial" \/ failAt = 2
    THEN Returned("failed to read data", NoBuild, NoProof)
    ELSE IF fs.r1cs.state = "absent" \/ failAt = 3
    THEN Returned("failed to open file", NoBuild, NoProof)
    ELSE Returned("", [pk |-> fs.pkey.data, vk |-> NoArtifact, r1cs |-> NoArtifact],
                  NoProof)

\* func ImportCircuitBuild: 1 open pkey.bin, 2 read it, 3 open r1cs.bin,
\* 4 read it; failAt is the step at which the system fails (0: nowhere).
ImportCircuitBuild(fs, failAt) ==
    IF fs.pkey.state = "absent" \/ failAt = 1
    THEN Returned("failed to open file", NoBuild, NoProof)
    ELSE IF fs.pkey.state = "partial" \/ failAt = 2
    THEN Returned("failed to read data", NoBuild, NoProof)
    ELSE IF fs.r1cs.state = "absent" \/ failAt = 3
    THEN Returned("failed to open file", NoBuild, NoProof)
    ELSE IF fs.r1cs.state = "partial" \/ failAt = 4
    THEN Returned("failed to read data", NoBuild, NoProof)
    ELSE Returned("", [pk |-> fs.pkey.data, vk |-> NoArtifact, r1cs |-> fs.r1cs.data],
                  NoProof)

\* frontend.NewWitness fails on a wire without a value.
NewWitnessFails(f) ==
    \/ f.InputHash = Nil
    \/ f.OutputHash = Nil
    \/ ~HasValue(f.inputBytes)
    \/ ~HasValue(f.outputBytes)
    \/ f.secret = Unassigned

\* groth16.Prove fails when the witness violates a constraint, when the
\* proving key is not of this constraint system, or in the protocol itself.
Groth16ProveFails(b, f, protocolFails) ==
    \/ ~ConstraintsHold(b.r1cs.constraints, f)
    \/ b.pk.circuit # b.r1cs.circuit
    \/ b.pk.constraints # b.r1cs.constraints
    \/ protocolFails

\* proof.WriteRawTo: eight field elements of fpSize bytes, fixed by the
\* proving key and the public inputs.
FpSize == 32

RawProof(b, f) ==
    LET h == Hash(<<b.pk.seed>> \o FillBytes(f.InputHash, FpSize)
                     \o FillBytes(f.OutputHash, FpSize))
        \* a field element of 254 bits: its first byte is below 64
        element(k) == [j \in 1..FpSize |->
                         IF j = 1 THEN h[k] % 64 ELSE (h[j] + 37 * k) % 256]
    IN  element(1) \o element(2) \o element(3) \o element(4) \o element(5)
            \o element(6) \o element(7) \o element(8)

\* A faulty packing: the two coordinates of each B element are exchanged.
PackProofSwapsB(proofBytes, f) ==
    LET word(k) == SetBytes(SubSeq(proofBytes, FpSize * k + 1, FpSize * (k + 1)))
    IN  [A |-> <<word(0), word(1)>>,
         B |-> <<<<word(3), word(2)>>, <<word(5), word(4)>>>>,
         C |-> <<word(6), word(7)>>,
         InputHash |-> FillBytes(f.InputHash, 32),
         OutputHash |-> FillBytes(f.OutputHash, 32)]

\* The fixed-offset packing at the end of Prove.
PackProof(proofBytes, f) ==
    LET word(k) == SetBytes(SubSeq(proofBytes, FpSize * k + 1, FpSize * (k + 1)))
    IN  [A |-> <<word(0), word(1)>>,
         B |-> <<<<word(2), word(3)>>, <<word(4), word(5)>>>>,
         C |-> <<word(6), word(7)>>,
         InputHash |-> FillBytes(f.InputHash, 32),
         OutputHash |-> FillBytes(f.OutputHash, 32)]

\* A faulty Prove: the error of groth16.Prove is not checked.
ProveIgnoresProverError(b, f, protocolFails) ==
    IF NewWitnessFails(f)
    THEN Returned("failed to create witness", NoBuild, NoProof)
    ELSE Returned("", NoBuild, <<PackProof(RawProof(b, f), f)>>)

\* func (f *CircuitFunction) Prove, after SetWitness has run: f holds the
\* assigned witness.
Prove(b, f, protocolFails) ==
    IF NewWitnessFails(f)
    THEN Returned("failed to create witness", NoBuild, NoProof)
    ELSE IF Groth16ProveFails(b, f, protocolFails)
    THEN Returned("failed to generate proof", NoBuild, NoProof)
    ELSE Returned("", NoBuild, <<PackProof(RawProof(b, f), f)>>)

\* ---------------------------------------------------------- initial states
\* Nothing is running and nothing has been built.
InitIdle ==
    /\ op = "none"
    /\ pc = "idle"
    /\ i = 0
    /\ nbHash = 0

InitNoProof ==
    /\ leaf = <<>>
    /\ proof = <<>>
    /\ gindexArg = 0

InitProofLocals ==
    /\ root = <<>>
    /\ hash = <<>>
    /\ gindex = 0
    /\ gindexBits = <<>>
    /\ restoredRoot = <<>>
    /\ asserts = <<>>
    /\ retConst = <<>>
    /\ retVar = <<>>

InitNoLeaves == leaves = <<>>

InitHTRLocals ==
    /\ nbLeavesArg = 0
    /\ nbLeaves = 0
    /\ entry = <<>>
    /\ retHTR = <<>>
    /\ calls = 0
    /\ returned = <<>>

InitNoFunction ==
    /\ circuit = "none"
    /\ fn = NewCircuitFunction("none")
    /\ lastInput = <<>>
    /\ tampered = FALSE
    /\ build = NoBuild
    /\ files = [r1cs |-> NoFile, pkey |-> NoFile, vkey |-> NoFile, sol |-> NoFile]
    /\ ret = Returned("", NoBuild, NoProof)
    /\ nbSetup = 0
    /\ hintRegs = 0

\* main has not been started.
InitNoMain ==
    /\ flags = [circuitPath |-> FALSE, dataPath |-> FALSE, compile |-> FALSE,
                prove |-> FALSE, verify |-> FALSE, contract |-> FALSE]
    /\ mainPc = "none"
    /\ logged = <<>>
    /\ exitCode = 0

\* ------------------------------------------- ssz.go: Merkle proofs, steps
InitProof ==
    /\ leaf \in Digests
    /\ proof \in SeqsUpTo(Digests, MaxProofLen)
    /\ gindexArg \in (0 - 1)..MaxGIndex
    /\ InitIdle
    /\ InitProofLocals
    /\ InitNoLeaves
    /\ InitHTRLocals
    /\ InitNoFunction
    /\ InitNoMain

\* func RestoreMerkleRoot: entry, called directly or from VerifyProof.
EnterRestoreMerkleRoot(caller) ==
    /\ pc = "idle"
    /\ op' = caller
    /\ pc' = "RestoreMerkleRoot"
    /\ hash' = leaf
    /\ i' = 0
    /\ gindex' = gindexArg
    /\ gindexBits' = <<>>
    /\ restoredRoot' = <<>>
    /\ asserts' = <<>>
    /\ nbHash' = 0

CallRestoreMerkleRoot ==
    /\ EnterRestoreMerkleRoot("RestoreMerkleRoot")
    /\ UNCHANGED <<leaf, proof, gindexArg, root, retConst, retVar, htrVars, fnVars, mainVars>>

CallVerifyProof ==
    /\ EnterRestoreMerkleRoot("VerifyProof")
    /\ root' \in Roots
    /\ UNCHANGED <<leaf, proof, gindexArg, retConst, retVar, htrVars, fnVars, mainVars>>

\* One iteration of the loop of RestoreMerkleRoot.
RestoreMerkleRootIter ==
    /\ pc = "RestoreMerkleRoot"
    /\ i < Len(proof)
    /\ hash' = RestoreMerkleRootLevel(hash, proof[i + 1], gindex)
    /\ gindex' = GoQuo(gindex, 2)
    /\ i' = i + 1
    /\ nbHash' = nbHash + 1
    /\ UNCHANGED <<leaf, proof, gindexArg, root, op, pc, gindexBits, restoredRoot,
                   asserts, retConst, retVar, htrVars, fnVars, mainVars>>

\* return hash: to the caller of RestoreMerkleRoot, or into VerifyProof.
RestoreMerkleRootReturn ==
    /\ pc = "RestoreMerkleRoot"
    /\ i >= Len(proof)
    /\ IF op = "VerifyProof"
       THEN /\ restoredRoot' = hash
            /\ pc' = "assert"
            /\ UNCHANGED retConst
       ELSE /\ retConst' = hash
            /\ pc' = "idle"
            /\ UNCHANGED restoredRoot
    /\ UNCHANGED <<leaf, proof, gindexArg, root, op, hash, i, gindex, gindexBits,
                   asserts, nbHash, retVar, htrVars, fnVars, mainVars>>

\* A faulty entry: the gindex decomposed into len(proof) bits only.
EnterRestoreVariableNarrow(caller) ==
    /\ pc = "idle"
    /\ gindexArg >= 0
    /\ op' = caller
    /\ pc' = "RestoreMerkleRootWithGIndexVariable"
    /\ gindexBits' = ToBinaryLE(gindexArg, Len(proof))
    /\ asserts' = <<<<FromBinaryLE(ToBinaryLE(gindexArg, Len(proof))), gindexArg>>>>
    /\ hash' = leaf
    /\ i' = 0
    /\ gindex' = gindexArg
    /\ restoredRoot' = <<>>
    /\ nbHash' = 0

\* func RestoreMerkleRootWithGIndexVariable: entry.  The gindex is a U64
\* wire; its decomposition adds the constraint that the bits recompose to it.
EnterRestoreVariable(caller) ==
    /\ pc = "idle"
    /\ gindexArg >= 0
    /\ op' = caller
    /\ pc' = "RestoreMerkleRootWithGIndexVariable"
    /\ gindexBits' = ToBinaryLE(gindexArg, Len(proof) + 1)
    /\ asserts' = <<<<FromBinaryLE(ToBinaryLE(gindexArg, Len(proof) + 1)), gindexArg>>>>
    /\ hash' = leaf
    /\ i' = 0
    /\ gindex' = gindexArg
    /\ restoredRoot' = <<>>
    /\ nbHash' = 0

CallRestoreMerkleRootWithGIndexVariable ==
    /\ EnterRestoreVariable("RestoreMerkleRootWithGIndexVariable")
    /\ UNCHANGED <<leaf, proof, gindexArg, root, retConst, retVar, htrVars, fnVars, mainVars>>

CallVerifyProofWithGIndexVariable ==
    /\ EnterRestoreVariable("VerifyProofWithGIndexVariable")
    /\ root' \in Roots
    /\ UNCHANGED <<leaf, proof, gindexArg, retConst, retVar, htrVars, fnVars, mainVars>>

RestoreVariableIter ==
    /\ pc = "RestoreMerkleRootWithGIndexVariable"
    /\ i < Len(proof)
    /\ hash' = RestoreVariableLevel(hash, proof[i + 1], gindexBits[i + 1])
    /\ i' = i + 1
    /\ nbHash' = nbHash + 2
    /\ UNCHANGED <<leaf, proof, gindexArg, root, op, pc, gindex, gindexBits,
                   restoredRoot, asserts, retConst, retVar, htrVars, fnVars, mainVars>>

RestoreVariableReturn ==
    /\ pc = "RestoreMerkleRootWithGIndexVariable"
    /\ i >= Len(proof)
    /\ IF op = "VerifyProofWithGIndexVariable"
       THEN /\ restoredRoot' = hash
            /\ pc' = "assert"
            /\ UNCHANGED retVar
       ELSE /\ retVar' = hash
            /\ pc' = "idle"
            /\ UNCHANGED restoredRoot
    /\ UNCHANGED <<leaf, proof, gindexArg, root, op, hash, i, gindex, gindexBits,
                   asserts, nbHash, retConst, htrVars, fnVars, mainVars>>

\* The assertion loop of VerifyProof and VerifyProofWithGIndexVariable.
VerifyAssertBytes ==
    /\ pc = "assert"
    /\ asserts' = asserts \o ByteAssertions(root, restoredRoot)
    /\ pc' = "idle"
    /\ UNCHANGED <<leaf, proof, gindexArg, root, op, hash, i, gindex, gindexBits,
                   restoredRoot, nbHash, retConst, retVar, htrVars, fnVars, mainVars>>

NextProof ==
    \/ CallRestoreMerkleRoot
    \/ CallVerifyProof
    \/ RestoreMerkleRootIter
    \/ RestoreMerkleRootReturn
    \/ CallRestoreMerkleRootWithGIndexVariable
    \/ CallVerifyProofWithGIndexVariable
    \/ RestoreVariableIter
    \/ RestoreVariableReturn
    \/ VerifyAssertBytes

SpecProof == InitProof /\ [][NextProof]_vars

\* -------------------------------------------- ssz.go: HashTreeRoot, steps
InitHTR ==
    /\ leaves \in SeqsUpTo(Digests, MaxLeaves)
    /\ InitIdle
    /\ InitNoProof
    /\ InitProofLocals
    /\ InitHTRLocals
    /\ InitNoFunction
    /\ InitNoMain

\* The call and the power-of-two check.
CallHashTreeRoot ==
    /\ pc = "idle"
    /\ calls < MaxCalls
    /\ \E n \in 0..(MaxLeaves + 1) :
        /\ nbLeavesArg' = n
        /\ nbLeaves' = n
        /\ pc' = IF HashTreeRootRejects(n) THEN "panic" ELSE "HashTreeRoot"
    /\ op' = "HashTreeRoot"
    /\ calls' = calls + 1
    /\ entry' = leaves
    /\ retHTR' = <<>>
    /\ i' = 0
    /\ nbHash' = 0
    /\ UNCHANGED <<leaves, returned, proofVars, fnVars, mainVars>>

\* A faulty iteration: the pair's hash is stored in the upper half of the
\* round, past the entries still to be read.
HashTreeRootInnerUpperHalf ==
    /\ pc = "HashTreeRoot"
    /\ nbLeaves > 1
    /\ i < GoQuo(nbLeaves, 2)
    /\ IF 2 * i + 2 > Len(leaves)
       THEN /\ pc' = "panic"
            /\ UNCHANGED <<leaves, i, nbHash>>
       ELSE /\ leaves' = [leaves EXCEPT ![GoQuo(nbLeaves, 2) + i + 1] = HashTreeRootPair(leaves, i)]
            /\ i' = i + 1
            /\ nbHash' = nbHash + 1
            /\ UNCHANGED pc
    /\ UNCHANGED <<op, nbLeavesArg, nbLeaves, entry, retHTR, calls, returned, proofVars, fnVars, mainVars>>

\* One iteration of the inner loop; an index past the slice panics.
HashTreeRootInner ==
    /\ pc = "HashTreeRoot"
    /\ nbLeaves > 1
    /\ i < GoQuo(nbLeaves, 2)
    /\ IF 2 * i + 2 > Len(leaves)
       THEN /\ pc' = "panic"
            /\ UNCHANGED <<leaves, i, nbHash>>
       ELSE /\ leaves' = [leaves EXCEPT ![i + 1] = HashTreeRootPair(leaves, i)]
            /\ i' = i + 1
            /\ nbHash' = nbHash + 1
            /\ UNCHANGED pc
    /\ UNCHANGED <<op, nbLeavesArg, nbLeaves, entry, retHTR, calls, returned, proofVars, fnVars, mainVars>>

\* The end of a round: nbLeaves = nbLeaves / 2.
HashTreeRootOuter ==
    /\ pc = "HashTreeRoot"
    /\ nbLeaves > 1
    /\ i >= GoQuo(nbLeaves, 2)
    /\ nbLeaves' = GoQuo(nbLeaves, 2)
    /\ i' = 0
    /\ UNCHANGED <<op, pc, nbHash, leaves, nbLeavesArg, entry, retHTR, calls, returned,
                   proofVars, fnVars, mainVars>>

\* return leaves[0]; an empty slice panics.
HashTreeRootReturn ==
    /\ pc = "HashTreeRoot"
    /\ nbLeaves <= 1
    /\ IF Len(leaves) = 0
       THEN /\ pc' = "panic"
            /\ UNCHANGED <<retHTR, returned>>
       ELSE /\ pc' = "idle"
            /\ retHTR' = leaves[1]
            /\ returned' = Append(returned, [slice |-> entry, n |-> nbLeavesArg,
                                             root |-> leaves[1]])
    /\ UNCHANGED <<op, i, nbHash, leaves, nbLeavesArg, nbLeaves, entry, calls, proofVars, fnVars, mainVars>>

NextHTR ==
    \/ CallHashTreeRoot
    \/ HashTreeRootInner
    \/ HashTreeRootOuter
    \/ HashTreeRootReturn

SpecHTR == InitHTR /\ [][NextHTR]_vars

\* ------------------------------------------------------ circuit.go, calls
\* A process that has wrapped one embedded circuit in a CircuitFunction.
InitWrapped(cs, dirs) ==
    /\ circuit \in cs
    /\ fn = NewCircuitFunction(circuit)
    /\ lastInput = <<>>
    /\ tampered = FALSE
    /\ build = NoBuild
    /\ files \in dirs
    /\ ret = Returned("", NoBuild, NoProof)
    /\ nbSetup = 0
    /\ hintRegs = 0
    /\ InitIdle
    /\ InitNoProof
    /\ InitProofLocals
    /\ InitNoLeaves
    /\ InitHTRLocals
    /\ InitNoMain

\* The build directory of a fresh checkout, and the one an earlier run of
\* the program left behind after building and exporting circuit c.
EmptyDir == [r1cs |-> NoFile, pkey |-> NoFile, vkey |-> NoFile, sol |-> NoFile]

EarlierDir(c) ==
    LET earlier == Build(c, TRUE, 0)
    IN  IF earlier.err # "" THEN EmptyDir ELSE Export(earlier.build, EmptyDir, 0)

InitFunction == InitWrapped(Circuits, {EmptyDir})

InitPipeline ==
    InitWrapped({"evenOnly", "lazyWitness", "definePanic"}, {EmptyDir, EarlierDir(circuit)})

sszVars == <<pc, i, nbHash, proofVars, htrVars>>

CallSetWitness ==
    /\ \E inputBytes \in InputBytes :
        /\ fn' = SetWitness(circuit, fn, inputBytes)
        /\ lastInput' = inputBytes
    /\ op' = "SetWitness"
    /\ tampered' = FALSE
    /\ ret' = Returned("", NoBuild, NoProof)
    /\ UNCHANGED <<circuit, build, files, nbSetup, hintRegs, sszVars, mainVars>>

\* A test changes one assigned byte wire of the embedded circuit and leaves
\* the public commitments as they are.
TamperWire ==
    /\ op \in {"SetWitness", "Prove"}
    /\ ~tampered
    /\ \/ \E k \in 1..InputLen :
            fn' = [fn EXCEPT !.inputBytes[k] = (fn.inputBytes[k] + 1) % 256]
       \/ \E k \in 1..Len(fn.outputBytes) :
            fn' = [fn EXCEPT !.outputBytes[k] = (fn.outputBytes[k] + 1) % 256]
    /\ tampered' = TRUE
    /\ UNCHANGED <<op, circuit, lastInput, build, files, ret, nbSetup, hintRegs, sszVars, mainVars>>

\* Build with the key generation succeeding or failing; the caller keeps
\* the CircuitBuild it is handed.
CallBuild ==
    /\ nbSetup < MaxSetup
    /\ \E setupOk \in BOOLEAN :
        /\ ret' = Build(circuit, setupOk, nbSetup + 1)
        /\ build' = IF ret'.err = "" THEN ret'.build ELSE build
    /\ nbSetup' = nbSetup + 1
    /\ op' = "Build"
    /\ UNCHANGED <<circuit, fn, lastInput, tampered, files, hintRegs, sszVars, mainVars>>

CallExport ==
    /\ build # NoBuild
    /\ \E failAt \in 0..9 :
        /\ files' = Export(build, files, failAt)
        /\ ret' = Returned(IF build.vk = NoArtifact /\ (failAt = 0 \/ failAt > 7)
                           THEN "panic" ELSE "", NoBuild, NoProof)
    /\ op' = "Export"
    /\ UNCHANGED <<circuit, fn, lastInput, tampered, build, nbSetup, hintRegs, sszVars, mainVars>>

CallImportCircuitBuild ==
    /\ \E failAt \in 0..4 :
        /\ ret' = ImportCircuitBuild(files, failAt)
        /\ build' = IF ret'.err = "" THEN ret'.build ELSE build
    /\ op' = "ImportCircuitBuild"
    /\ UNCHANGED <<circuit, fn, lastInput, tampered, files, nbSetup, hintRegs, sszVars, mainVars>>

\* A faulty Prove call: a failed Prove drops the caller's CircuitBuild.
ProveCallDropsBuild(limit) ==
    /\ build # NoBuild
    /\ hintRegs < limit
    /\ \E inputBytes \in InputBytes, protocolFails \in BOOLEAN :
        /\ fn' = SetWitness(circuit, fn, inputBytes)
        /\ lastInput' = inputBytes
        /\ ret' = Prove(build, fn', protocolFails)
    /\ build' = IF ret'.err # "" THEN NoBuild ELSE build
    /\ hintRegs' = hintRegs + 1
    /\ tampered' = FALSE
    /\ op' = "Prove"
    /\ UNCHANGED <<circuit, files, nbSetup, sszVars, mainVars>>

\* Prove on the CircuitBuild the caller holds, with any input and with the
\* proving protocol succeeding or failing.
ProveCall(limit) ==
    /\ build # NoBuild
    /\ hintRegs < limit
    /\ \E inputBytes \in InputBytes, protocolFails \in BOOLEAN :
        /\ fn' = SetWitness(circuit, fn, inputBytes)
        /\ lastInput' = inputBytes
        /\ ret' = Prove(build, fn', protocolFails)
    /\ hintRegs' = hintRegs + 1
    /\ tampered' = FALSE
    /\ op' = "Prove"
    /\ UNCHANGED <<circuit, build, files, nbSetup, sszVars, mainVars>>

CallProve == ProveCall(MaxProve)

CallPipelineProve == ProveCall(MaxPipelineProve)

\* The function contract: witness assignment against the constraints.
NextFunction ==
    \/ CallSetWitness
    \/ TamperWire
    \/ CallBuild
    \/ CallProve

SpecFunction == InitFunction /\ [][NextFunction]_vars

\* The pipeline: build, export, import, prove.
NextPipeline ==
    \/ CallBuild
    \/ CallExport
    \/ CallImportCircuitBuild
    \/ CallPipelineProve

SpecPipeline == InitPipeline /\ [][NextPipeline]_vars

\* ------------------------------------------------------------ main, steps
Modes == {"compile", "prove", "verify"}

Verified == "Successfully verified proof"

\* One line of what main did: the call it made in a mode, and whether the
\* call returned an error; the final message of a mode has err = FALSE.
MainLog(mode, step, err) == [mode |-> mode, step |-> step, err |-> err]

RECURSIVE MainMessages(_, _)
MainMessages(mode, msgs) ==
    IF msgs = <<>> THEN <<>>
    ELSE <<MainLog(mode, Head(msgs), FALSE)>> \o MainMessages(mode, Tail(msgs))

InitMain ==
    /\ flags \in [{"circuitPath", "dataPath", "compile", "prove", "verify", "contract"} -> BOOLEAN]
    /\ mainPc = "circuitPath"
    /\ logged = <<>>
    /\ exitCode = 0
    /\ InitIdle
    /\ InitNoProof
    /\ InitProofLocals
    /\ InitNoLeaves
    /\ InitHTRLocals
    /\ InitNoFunction

\* A call whose error is ignored: main goes on to the next statement.
MainCallNoExit(at, mode, step, next, msgs) ==
    /\ mainPc = at
    /\ \E failed \in BOOLEAN :
        logged' = Append(logged, MainLog(mode, step, failed)) \o MainMessages(mode, msgs)
    /\ mainPc' = next
    /\ UNCHANGED <<flags, exitCode, op, sszVars, fnVars>>

\* x, err := F(...); if err != nil { log; os.Exit(1) }; then the messages
\* logged before the next statement.
MainCall(at, mode, step, next, msgs) ==
    /\ mainPc = at
    /\ \E failed \in BOOLEAN :
        IF failed
        THEN /\ logged' = Append(logged, MainLog(mode, step, TRUE))
             /\ mainPc' = "exited"
             /\ exitCode' = 1
        ELSE /\ logged' = Append(logged, MainLog(mode, step, FALSE)) \o MainMessages(mode, msgs)
             /\ mainPc' = next
             /\ exitCode' = exitCode
    /\ UNCHANGED <<flags, op, sszVars, fnVars>>

\* if *path == "" { log.Error; os.Exit(1) }
MainCheckPath(at, path, next) ==
    /\ mainPc = at
    /\ IF flags[path]
       THEN /\ mainPc' = next
            /\ UNCHANGED <<logged, exitCode>>
       ELSE /\ logged' = Append(logged, MainLog("flags", path, TRUE))
            /\ mainPc' = "exited"
            /\ exitCode' = 1
    /\ UNCHANGED <<flags, op, sszVars, fnVars>>

\* if *flag { ... }
MainFlag(at, flag, then, else) ==
    /\ mainPc = at
    /\ mainPc' = IF flags[flag] THEN then ELSE else
    /\ UNCHANGED <<flags, logged, exitCode, op, sszVars, fnVars>>

MainCheckCircuitPath == MainCheckPath("circuitPath", "circuitPath", "dataPath")

MainCheckDataPath == MainCheckPath("dataPath", "dataPath", "compileFlag")

MainCompileFlag == MainFlag("compileFlag", "compile", "CompileVerifierCircuit", "proveFlag")

MainCompileVerifierCircuit ==
    MainCall("CompileVerifierCircuit", "compile", "CompileVerifierCircuit", "SaveVerifierCircuit", <<>>)

MainSaveVerifierCircuit ==
    MainCall("SaveVerifierCircuit", "compile", "SaveVerifierCircuit", "contractFlag", <<>>)

MainContractFlag == MainFlag("contractFlag", "contract", "ExportIFunctionVerifierSolidity", "proveFlag")

MainExportSolidity ==
    MainCall("ExportIFunctionVerifierSolidity", "compile", "ExportIFunctionVerifierSolidity", "proveFlag", <<>>)

MainProofFlag == MainFlag("proveFlag", "prove", "LoadProverData", "verifyFlag")

MainLoadProverData == MainCall("LoadProverData", "prove", "LoadProverData", "Prove", <<>>)

MainProve == MainCall("Prove", "prove", "Prove", "proveLoadVerifierKey", <<>>)

MainProveLoadVerifierKey ==
    MainCall("proveLoadVerifierKey", "prove", "LoadVerifierKey", "proveVerify", <<>>)

MainProveVerify == MainCall("proveVerify", "prove", "plonk.Verify", "verifyFlag", <<Verified>>)

MainVerifyFlag == MainFlag("verifyFlag", "verify", "verifyLoadVerifierKey", "return")

MainVerifyLoadVerifierKey ==
    MainCall("verifyLoadVerifierKey", "verify", "LoadVerifierKey", "LoadPublicWitness", <<>>)

MainLoadPublicWitness == MainCall("LoadPublicWitness", "verify", "LoadPublicWitness", "LoadProof", <<>>)

MainLoadProof == MainCall("LoadProof", "verify", "LoadProof", "verifyVerify", <<>>)

MainVerifyVerify == MainCall("verifyVerify", "verify", "plonk.Verify", "return", <<Verified>>)

\* main returns: the process exits with status 0.
MainReturn ==
    /\ mainPc = "return"
    /\ mainPc' = "exited"
    /\ exitCode' = 0
    /\ UNCHANGED <<flags, logged, op, sszVars, fnVars>>

NextMain ==
    \/ MainCheckCircuitPath
    \/ MainCheckDataPath
    \/ MainCompileFlag
    \/ MainCompileVerifierCircuit
    \/ MainSaveVerifierCircuit
    \/ MainContractFlag
    \/ MainExportSolidity
    \/ MainProofFlag
    \/ MainLoadProverData
    \/ MainProve
    \/ MainProveLoadVerifierKey
    \/ MainProveVerify
    \/ MainVerifyFlag
    \/ MainVerifyLoadVerifierKey
    \/ MainLoadPublicWitness
    \/ MainLoadProof
    \/ MainVerifyVerify
    \/ MainReturn

SpecMain == InitMain /\ [][NextMain]_vars

\* ---------------------------------------------------- properties of ssz.go
IsPowerOfTwo(n) == \E k \in 0..n : n = Pow2(k)

\* The root of the perfect binary tree over ls, top down.
RECURSIVE MerkleRoot(_)
MerkleRoot(ls) ==
    IF Len(ls) = 1 THEN ls[1]
    ELSE LET half == Len(ls) \div 2
         IN  Hash(MerkleRoot(SubSeq(ls, 1, half)) \o MerkleRoot(SubSeq(ls, half + 1, Len(ls))))

VerifyDone == pc = "idle" /\ op \in {"VerifyProof", "VerifyProofWithGIndexVariable"}

\* The byte assertions are the last DigestLen constraints of a Verify call.
ByteAssertionsAdded == SubSeq(asserts, Len(asserts) - DigestLen + 1, Len(asserts))

\* C1: for a non-negative constant gindex, RestoreMerkleRoot starts from the
\* leaf, has after i steps hashed i times and holds the accumulation in which
\* step k put the sibling first when bit k of the gindex is 1 and second when
\* it is 0, and returns the accumulation of all len(proof) steps; gindex 5
\* with proof [s0, s1] gives Hash(Hash(s0 || leaf) || s1), and an empty proof
\* gives the leaf.
C1_RestoreMerkleRoot ==
    gindexArg >= 0 =>
        /\ pc = "RestoreMerkleRoot" =>
              /\ i <= Len(proof)
              /\ nbHash = i
              /\ hash = ReferenceRoot(leaf, proof, gindexArg, i)
        /\ (op = "RestoreMerkleRoot" /\ pc = "idle") =>
              /\ i = Len(proof)
              /\ nbHash = Len(proof)
        /\ retConst # <<>> =>
              /\ retConst = ReferenceRoot(leaf, proof, gindexArg, Len(proof))
              /\ Len(proof) = 0 => retConst = leaf
              /\ (Len(proof) = 2 /\ gindexArg = 5) =>
                     retConst = Hash(Hash(proof[1] \o leaf) \o proof[2])

C1_Witness ==
    /\ op = "RestoreMerkleRoot"
    /\ pc = "idle"
    /\ gindexArg = 5
    /\ Len(proof) = 2
    /\ proof[1] # proof[2]
    /\ retConst = Hash(Hash(proof[1] \o leaf) \o proof[2])
    /\ retConst # Hash(Hash(leaf \o proof[1]) \o proof[2])

C3_SatisfiableIffRootsAgree ==
    VerifyDone =>
        /\ \A k \in 1..DigestLen : ByteAssertionsAdded[k] = <<root[k], restoredRoot[k]>>
        /\ Satisfied(asserts) <=> (\A k \in 1..DigestLen : root[k] = restoredRoot[k])

\* C3 as amended: a finished VerifyProof or VerifyProofWithGIndexVariable has
\* added one equality assertion per byte position, byte k of root against
\* byte k of the restored root; these 32 assertions hold exactly when root
\* and restored root agree in all 32 bytes, and the constraints of the
\* circuit are satisfiable exactly when they do and, for the variable
\* gindex, the gindex is below 2^(len(proof)+1).
C3_PerByteAssertions ==
    VerifyDone =>
        /\ Len(asserts) = DigestLen + (IF op = "VerifyProof" THEN 0 ELSE 1)
        /\ \A k \in 1..DigestLen : ByteAssertionsAdded[k] = <<root[k], restoredRoot[k]>>
        /\ Satisfied(ByteAssertionsAdded) <=> (\A k \in 1..DigestLen : root[k] = restoredRoot[k])
        /\ Satisfied(asserts) <=>
              /\ \A k \in 1..DigestLen : root[k] = restoredRoot[k]
              /\ op = "VerifyProofWithGIndexVariable" => gindexArg < Pow2(Len(proof) + 1)
        /\ (op = "VerifyProof" /\ retConst # <<>>) => restoredRoot = retConst
        /\ (op = "VerifyProofWithGIndexVariable" /\ retVar # <<>>) => restoredRoot = retVar

C3_Witness ==
    /\ VerifyDone
    /\ Len(proof) = 2
    /\ HasValue(restoredRoot)
    /\ root[DigestLen] # restoredRoot[DigestLen]
    /\ \A k \in 1..(DigestLen - 1) : root[k] = restoredRoot[k]
    /\ ~Satisfied(asserts)

\* Where the values of one round sit while HashTreeRoot reduces a slice of
\* 2^k leaves: entries below i hold this round's pair hashes, entries from i
\* up to nbLeaves still hold the previous round's.
RoundValue(k, width) == MerkleRoot(SubSeq(entry, k * width + 1, (k + 1) * width))

\* C4: called with nbLeaves = 2^k = len(leaves), HashTreeRoot computes each
\* round from the values of the previous round only, hashes once per pair,
\* and returns the root of the perfect binary tree over the leaves it was
\* given; one leaf is returned as it is, without hashing.
C4_HashTreeRoot ==
    (op = "HashTreeRoot" /\ IsPowerOfTwo(nbLeavesArg) /\ nbLeavesArg = Len(entry)) =>
        /\ pc # "panic"
        /\ pc = "HashTreeRoot" =>
              LET width == nbLeavesArg \div nbLeaves
              IN  /\ nbLeaves * width = nbLeavesArg
                  /\ \A k \in 0..(nbLeaves - 1) :
                        leaves[k + 1] = IF k < i THEN RoundValue(k, 2 * width)
                                        ELSE RoundValue(k, width)
        /\ pc = "idle" =>
              /\ retHTR = MerkleRoot(entry)
              /\ nbHash = nbLeavesArg - 1
              /\ nbLeavesArg = 1 => retHTR = entry[1]

C4_Witness ==
    /\ op = "HashTreeRoot"
    /\ pc = "idle"
    /\ nbLeavesArg = 4
    /\ Len(entry) = 4
    /\ entry[1] # entry[2]
    /\ retHTR = Hash(Hash(entry[1] \o entry[2]) \o Hash(entry[3] \o entry[4]))

\* C5: HashTreeRoot called with a leaf count that is not a power of two
\* aborts: it returns no digest and adds no hash.
C5_RejectsNonPowerOfTwo ==
    (op = "HashTreeRoot" /\ ~IsPowerOfTwo(nbLeavesArg)) =>
        /\ pc # "idle"
        /\ retHTR = <<>>
        /\ nbHash = 0

\* ------------------------------------------------ properties of circuit.go
WitnessSet == op \in {"SetWitness", "Prove"} /\ ~tampered

\* What the embedded circuit puts on its output wires for inputBytes.
EmbeddedOutput(c, inputBytes) ==
    IF c = "sumOfWires" THEN <<Sum(inputBytes) % 256>> ELSE inputBytes

\* A digest with its three most significant bits cleared, as a 32-byte number.
Truncated253(digest) == [digest EXCEPT ![1] = digest[1] % 32]

\* C6: after SetWitness(inputBytes) the input wires hold inputBytes, the
\* output wires hold what the embedded circuit's SetWitness made of them,
\* InputHash is the hash of inputBytes cut to 253 bits and OutputHash is the
\* hash of those output bytes cut to 253 bits.
C6_SetWitnessHashes ==
    WitnessSet =>
        /\ fn.inputBytes = lastInput
        /\ fn.outputBytes = EmbeddedOutput(circuit, lastInput)
        /\ fn.InputHash = HashAndTruncate(lastInput, TruncBits)
        /\ fn.OutputHash = HashAndTruncate(EmbeddedOutput(circuit, lastInput), TruncBits)
        /\ FillBytes(fn.InputHash, DigestLen) = Truncated253(Hash(lastInput))
        /\ FillBytes(fn.OutputHash, DigestLen) = Truncated253(Hash(fn.outputBytes))

C6_Witness ==
    /\ op = "SetWitness"
    /\ circuit = "sumOfWires"
    /\ lastInput = <<1, 1>>
    /\ fn.outputBytes = <<2>>
    /\ FillBytes(fn.OutputHash, DigestLen) = Truncated253(Hash(<<2>>))
    /\ FillBytes(fn.OutputHash, DigestLen) # Hash(<<2>>)

\* The constraints CircuitFunction.Define adds, and those of the embedded
\* circuit alone.
DefineConstraints == Define(circuit).constraints

EmbeddedAccepts == ConstraintsHold(CircuitDefine(circuit).constraints, fn)

CommitmentsMatch ==
    /\ fn.InputHash = GadgetHashAndTruncate(fn.inputBytes, TruncBits)
    /\ fn.OutputHash = GadgetHashAndTruncate(fn.outputBytes, TruncBits)

\* C7: when Define runs to its end, the witness SetWitness assigns satisfies
\* its constraints for every input the embedded circuit accepts; a witness
\* whose InputHash or OutputHash differs from the in-circuit truncated hash
\* of the input or output wires violates them, as does a witness with one
\* byte wire changed after SetWitness.
C7_DefineBindsHashes ==
    ~CircuitDefine(circuit).panic =>
        /\ (WitnessSet /\ EmbeddedAccepts) => ConstraintsHold(DefineConstraints, fn)
        /\ ~CommitmentsMatch => ~ConstraintsHold(DefineConstraints, fn)
        /\ tampered => ~ConstraintsHold(DefineConstraints, fn)

C7_Witness ==
    /\ circuit = "defineError"
    /\ tampered
    /\ fn.inputBytes = lastInput
    /\ fn.outputBytes # lastInput
    /\ fn.OutputHash # GadgetHashAndTruncate(fn.outputBytes, TruncBits)
    /\ ~ConstraintsHold(DefineConstraints, fn)

\* C8: when the embedded circuit's Define reports an error, Build returns a
\* compilation error and no CircuitBuild; a failed key generation gives a
\* setup error and no CircuitBuild.
C8_DefineErrorFailsBuild ==
    op = "Build" =>
        /\ CircuitDefine(circuit).err => (ret.err = "compile" /\ ret.build = NoBuild)
        /\ ret.err = "setup" => ret.build = NoBuild

\* C9: Prove returns a proof only with a nil error, and only when the
\* witness was complete, satisfied every constraint of the build's
\* constraint system and the protocol succeeded; an incomplete witness or a
\* violated constraint gives an error and no proof.
C9_NoProofAfterFailure ==
    op = "Prove" =>
        /\ ret.proof # NoProof <=> ret.err = ""
        /\ ret.proof # NoProof =>
              /\ ~NewWitnessFails(fn)
              /\ ConstraintsHold(build.r1cs.constraints, fn)
        /\ (NewWitnessFails(fn) \/ ~ConstraintsHold(build.r1cs.constraints, fn)) =>
              (ret.err # "" /\ ret.proof = NoProof)
        /\ NewWitnessFails(fn) => ret.err = "failed to create witness"

C9_Witness ==
    /\ op = "Prove"
    /\ circuit = "evenOnly"
    /\ lastInput[1] = 1
    /\ ~NewWitnessFails(fn)
    /\ ret.err = "failed to generate proof"
    /\ ret.proof = NoProof

\* A CircuitBuild with all three parts, the keys generated together from
\* its constraint system.
WholeBuild(b) ==
    /\ b.r1cs.role = "r1cs"
    /\ b.pk = Artifact("pk", b.r1cs, b.pk.seed)
    /\ b.vk = Artifact("vk", b.r1cs, b.pk.seed)

KeysOfOwnSystem(b) ==
    /\ b.pk # NoArtifact => b.pk = Artifact("pk", b.r1cs, b.pk.seed)
    /\ b.vk # NoArtifact => b.vk = Artifact("vk", b.r1cs, b.vk.seed)

C11_ProveKeepsBuild ==
    /\ [][hintRegs' # hintRegs => (op' = "Prove" /\ build' = build /\ files' = files)]_vars
    /\ [](op = "Prove" => (build # NoBuild /\ KeysOfOwnSystem(build)))

C11_Witness ==
    /\ op = "Prove"
    /\ ret.err = "failed to generate proof"
    /\ build.vk = NoArtifact
    /\ build.pk.role = "pk"
    /\ build.r1cs.role = "r1cs"

\* The build directory is as an Export of b without any I/O failure leaves it.
ExportedAll(b, fs) == fs = Export(b, fs, 0)

\* Prove gives the same result with either build, whatever the input.
ProvesAlike(b1, b2) ==
    \A inputBytes \in InputBytes :
        LET f == SetWitness(circuit, fn, inputBytes)
        IN  Prove(b1, f, FALSE) = Prove(b2, f, FALSE)

\* C12: when Export has written the build directory without I/O failure, an
\* ImportCircuitBuild without I/O failure succeeds; the build it returns has
\* the constraint system and the proving key of the exported build and no
\* verifying key, no key generation has run, and Prove gives with it what it
\* gives with the exported build.
C12_ExportImportRoundTrip ==
    /\ []((op = "Export" /\ ExportedAll(build, files)) =>
            ImportCircuitBuild(files, 0).err = "")
    /\ [][(op = "Export" /\ ExportedAll(build, files) /\ CallImportCircuitBuild
            /\ ret'.err = "") =>
              /\ ret'.build.r1cs = build.r1cs
              /\ ret'.build.pk = build.pk
              /\ ret'.build.vk = NoArtifact
              /\ build' = ret'.build
              /\ nbSetup' = nbSetup
              /\ ProvesAlike(build', build)]_vars

C12_Witness ==
    /\ op = "ImportCircuitBuild"
    /\ ret.err = ""
    /\ build = ret.build
    /\ build.vk = NoArtifact
    /\ build.pk.seed = 1
    /\ build.pk = files.pkey.data
    /\ build.r1cs = files.r1cs.data
    /\ files.vkey.state = "complete"
    /\ files.vkey.data.seed = 1

\* C13: an Export that did not leave the build directory as an Export
\* without I/O failure leaves it hands its caller an error, and so does an
\* ImportCircuitBuild that returns no CircuitBuild.
C13_IOFailuresReported ==
    /\ (op = "Export" /\ ~ExportedAll(build, files)) => ret.err # ""
    /\ (op = "ImportCircuitBuild" /\ ret.build = NoBuild) => ret.err # ""

\* ------------------------------------------- further properties of ssz.go
\* floor(log2(g)) = n: the gindex has n + 1 bits.
WellFormedGIndex(g, n) == Pow2(n) <= g /\ g < Pow2(n + 1)

\* C14: RestoreMerkleRoot and VerifyProof called with a constant gindex
\* g >= 0 whose bit length is not len(proof) + 1 abort: no hash is added, no
\* assertion is added and no digest is returned.
C14_MalformedGIndexAborts ==
    (op \in {"RestoreMerkleRoot", "VerifyProof"}
        /\ gindexArg >= 0
        /\ ~WellFormedGIndex(gindexArg, Len(proof))) =>
        /\ pc # "idle"
        /\ nbHash = 0
        /\ asserts = <<>>
        /\ retConst = <<>>

\* C15: two HashTreeRoot calls that returned and were given the same
\* nbLeaves return the same root when their slices held the same contents
\* at the call, and also when they are successive calls on the one slice of
\* the caller.
C15_HashTreeRootDeterministic ==
    \A a, b \in DOMAIN returned :
        returned[a].n = returned[b].n =>
            /\ returned[a].slice = returned[b].slice => returned[a].root = returned[b].root
            /\ b = a + 1 => returned[a].root = returned[b].root

\* ---------------------------------------- further properties of circuit.go
\* The 32 bytes at byte offset 32 * k of the raw proof serialization.
RawWord(raw, k) == [j \in 1..32 |-> raw[32 * k + j]]

\* The integer x as 32 big-endian bytes, left padded with zeros.
Padded32(x) == [j \in 1..32 |-> IF j <= 32 - Len(x) THEN 0 ELSE x[j - (32 - Len(x))]]

\* C16: the Proof a Prove call returns holds as A[0], A[1], B[0][0],
\* B[0][1], B[1][0], B[1][1], C[0], C[1] the integers whose 32-byte
\* big-endian encodings sit at byte offsets 0, 32, ..., 224 of the raw
\* proof, and as InputHash and OutputHash the 32-byte big-endian encodings
\* of the values SetWitness assigned to the public wires in that call.
C16_ProofLayout ==
    (op = "Prove" /\ ret.proof # NoProof) =>
        LET p == ret.proof[1]
            raw == RawProof(build, fn)
        IN  /\ Len(raw) = 8 * 32
            /\ Padded32(p.A[1]) = RawWord(raw, 0)
            /\ Padded32(p.A[2]) = RawWord(raw, 1)
            /\ Padded32(p.B[1][1]) = RawWord(raw, 2)
            /\ Padded32(p.B[1][2]) = RawWord(raw, 3)
            /\ Padded32(p.B[2][1]) = RawWord(raw, 4)
            /\ Padded32(p.B[2][2]) = RawWord(raw, 5)
            /\ Padded32(p.C[1]) = RawWord(raw, 6)
            /\ Padded32(p.C[2]) = RawWord(raw, 7)
            /\ \A w \in {p.A[1], p.A[2], p.B[1][1], p.B[1][2], p.B[2][1], p.B[2][2],
                          p.C[1], p.C[2]} : Len(w) = 0 \/ w[1] # 0
            /\ p.InputHash = Padded32(HashAndTruncate(lastInput, TruncBits))
            /\ p.OutputHash = Padded32(HashAndTruncate(EmbeddedOutput(circuit, lastInput),
                                                       TruncBits))
            /\ p.InputHash = Padded32(fn.InputHash)
            /\ p.OutputHash = Padded32(fn.OutputHash)

C16_Witness ==
    /\ op = "Prove"
    /\ ret.proof # NoProof
    /\ hintRegs = 2
    /\ circuit = "sumOfWires"
    /\ lastInput = <<1, 0>>
    /\ ret.proof[1].B[1][1] # ret.proof[1].B[1][2]
    /\ Len(ret.proof[1].InputHash) = 32
    /\ ret.proof[1].InputHash # ret.proof[1].OutputHash

\* ------------------------------------------------------ properties of main
ModeRank(m) ==
    CASE m = "flags" -> 0
      [] m = "compile" -> 1
      [] m = "prove" -> 2
      [] m = "verify" -> 3

MainStarted == mainPc \notin {"none", "circuitPath", "dataPath"}

\* C17: in every run of main the selected modes, and only they, run in the
\* order compile, prove, verify; a missing circuit or data path ends the
\* process with status 1 before any mode runs; a call that returns an error
\* is the last thing the process does and the exit status is then 1; and
\* "Successfully verified proof" is logged only directly after a plonk.Verify
\* of the same mode that returned no error.
C17_MainSequence ==
    /\ \A a, b \in DOMAIN logged :
        a < b => ModeRank(logged[a].mode) <= ModeRank(logged[b].mode)
    /\ \A a \in DOMAIN logged : logged[a].mode \in Modes => flags[logged[a].mode]
    /\ (MainStarted /\ ~(flags.circuitPath /\ flags.dataPath)) =>
        /\ mainPc = "exited"
        /\ exitCode = 1
        /\ Len(logged) = 1
        /\ logged[1].mode = "flags"
    /\ \A a \in DOMAIN logged :
        logged[a].err => (a = Len(logged) /\ mainPc = "exited" /\ exitCode = 1)
    /\ \A a \in DOMAIN logged :
        logged[a].step = Verified =>
            /\ a > 1
            /\ logged[a - 1] = MainLog(logged[a].mode, "plonk.Verify", FALSE)
    /\ (mainPc = "exited" /\ exitCode = 0) =>
        \A m \in Modes : flags[m] <=> (\E a \in DOMAIN logged : logged[a].mode = m)

\* All three modes were selected, compile and prove went through and the
\* verifier of the verify mode returned an error.
C17_Witness ==
    /\ mainPc = "exited"
    /\ exitCode = 1
    /\ flags.compile /\ flags.prove /\ flags.verify /\ flags.contract
    /\ Len(logged) = 12
    /\ logged[8] = MainLog("prove", Verified, FALSE)
    /\ logged[12] = MainLog("verify", "plonk.Verify", TRUE)

\* C18: RestoreMerkleRootWithGIndexVariable decomposes the gindex into
\* len(proof)+1 little-endian bits and the loop reads bits 0..len(proof)-1
\* only.  For a gindex below 2^(len(proof)+1) the decomposition is
\* satisfied and the restored root is the one of the gindex with bit
\* len(proof) cleared, and of the gindex with that bit set: the top bit has
\* no effect.  For a gindex of 2^(len(proof)+1) or more the decomposition
\* constraint is unsatisfiable.
C18_TopBitUnused ==
    /\ pc = "RestoreMerkleRootWithGIndexVariable" =>
        (Len(gindexBits) = Len(proof) + 1 /\ i <= Len(proof))
    /\ (op = "RestoreMerkleRootWithGIndexVariable" /\ pc = "idle") =>
        LET L == Len(proof)
            low == gindexArg % Pow2(L)
        IN  /\ Len(gindexBits) = L + 1
            /\ gindexArg < Pow2(L + 1) =>
                /\ Holds(asserts[1])
                /\ HasValue(retVar)
                /\ retVar = ReferenceRoot(leaf, proof, low, L)
                /\ retVar = ReferenceRoot(leaf, proof, low + Pow2(L), L)
            /\ gindexArg >= Pow2(L + 1) => ~Holds(asserts[1])

\* Depth 2 and gindex 3, whose bit 2 is clear: the root is that of gindex 7.
C18_Witness ==
    /\ op = "RestoreMerkleRootWithGIndexVariable"
    /\ pc = "idle"
    /\ Len(proof) = 2
    /\ proof[1] # proof[2]
    /\ gindexArg = 3
    /\ gindexBits = <<1, 1, 0>>
    /\ retVar = Hash(proof[2] \o Hash(proof[1] \o leaf))
    /\ retVar = ReferenceRoot(leaf, proof, 7, 2)

\* C19: hint registration is performed once per process, before the witness
\* computation of the first Prove call, and no later Prove call performs
\* it again.
C19_HintsRegisteredOnce ==
    /\ hintRegs <= 1
    /\ op = "Prove" => hintRegs = 1

\* C20: HashTreeRoot works in place on the caller's slice.  At every point
\* of a call the slice keeps its length and every entry at an index of
\* nbLeaves/2 or more is the one the caller passed; after a call with
\* nbLeaves = 2^k >= 2 has returned, leaves[0] is the returned root; a call
\* with nbLeaves = 1 changes no entry.
C20_InPlace ==
    op = "HashTreeRoot" =>
        /\ Len(leaves) = Len(entry)
        /\ \A k \in DOMAIN leaves : k > GoQuo(nbLeavesArg, 2) => leaves[k] = entry[k]
        /\ nbLeavesArg = 1 => leaves = entry
        /\ (pc = "idle" /\ nbLeavesArg >= 2) => leaves[1] = retHTR

\* Four leaves: both entries of the lower half were overwritten, the upper
\* half is as passed, and leaves[0] is the root returned.
C20_Witness ==
    /\ op = "HashTreeRoot"
    /\ pc = "idle"
    /\ nbLeavesArg = 4
    /\ leaves[1] # entry[1]
    /\ leaves[2] # entry[2]
    /\ leaves[3] = entry[3]
    /\ leaves[4] = entry[4]
    /\ leaves[2] = Hash(entry[3] \o entry[4])
    /\ leaves[1] = retHTR

====
